---------------------------- MODULE Spec2Model ----------------------------
(***************************************************************************)
(* Model of the seobrain index lifecycle.                                  *)
(*                                                                         *)
(* Part 1 (SpecWatcher): the directory watcher of indexer.py.  Two         *)
(* threads share last_event_time and pending_index without a lock: the     *)
(* watchdog observer thread runs on_created / on_modified, the main        *)
(* thread runs run_indexing, check_if_should_index and time.sleep(1).      *)
(* Each Python statement is one atomic step.  Statements take no time:     *)
(* time advances (Tick, one second) only while the main thread is inside   *)
(* time.sleep or subprocess.run and the observer is between callbacks.     *)
(* time.sleep(1) lasts at least one second; subprocess.run lasts any       *)
(* number of seconds.  Time is kept as the number of seconds elapsed       *)
(* since the value stored in last_event_time, capped at AgeCap, so that    *)
(* the clock itself needs no bound.                                        *)
(*                                                                         *)
(* Part 2 (SpecIndex): processes that call create_or_load_index of         *)
(* search.py on one index name, and the directory that FAISS.save_local    *)
(* writes (index.faiss, then index.pkl).                                   *)
(*                                                                         *)
(* Part 3 (SpecLoad): one call of load_documents of search.py, one file    *)
(* of the scan per step.                                                   *)
(*                                                                         *)
(* Part 4 (SpecLink): one pass of crosslinker.py, find_related_articles    *)
(* (called once or twice on the same articles) followed by                 *)
(* update_articles_with_links, one article per step.                       *)
(*                                                                         *)
(* Part 5 (SpecQuery): successive runs of search.py and                    *)
(* articlegenerator.py under a configuration that may change between       *)
(* runs, with the embedding variant of each persisted index.               *)
(*                                                                         *)
(* FairHang is the watcher of part 1 with a script that may hang.          *)
(***************************************************************************)
EXTENDS Integers, FiniteSets, Sequences, TLC

\* ------------------------------------------------------------------------
\* Bounds and program constants
\* ------------------------------------------------------------------------
DEFAULT_COOLDOWN == 5

SleepSeconds == 1

MaxEvents == 2

MaxIgnored == 1

NumProcs == 2

MaxVer == 1

MaxFiles == 3

MaxArticles == 2

MaxLinks == 2

MaxRuns == 3

Cooldown == DEFAULT_COOLDOWN

AgeCap == Cooldown + 1

supported_extensions == {".txt", ".md", ".html", ".json", ".csv"}

\* File extensions offered to the watcher, as os.path.splitext returns them.
Exts == {".md", ".MD", ".py", ".markdown", ""}

\* Event kinds watchdog dispatches to a FileSystemEventHandler.
EventKinds == {"created", "modified", "deleted", "moved"}

Min(a, b) == IF a < b THEN a ELSE b

Max(a, b) == IF a > b THEN a ELSE b

VARIABLES
    \* ---- watcher (indexer.py) ----
    pcMain,          \* position of the main thread
    pcObs,           \* position of the observer thread
    pending_index,   \* KnowledgeBaseHandler.pending_index
    sinceLast,       \* seconds since the time stored in last_event_time (capped)
    sleepLeft,       \* seconds time.sleep(1) still has to wait
    initialRun,      \* the run in progress is the one made at startup
    nEvents,         \* relevant events recorded so far
    nIgnored,        \* events the handler ignored so far (capped)
    \* ---- history variables of the watcher ----
    starts,          \* rebuilds launched by the main loop (startup run excluded)
    startAge,        \* sinceLast at the most recent launch of the main loop
    startsSinceEv,   \* launches of the main loop since the last recorded event
    burstClean,      \* every event of the current burst arrived outside a rebuild
    uncovered,       \* an event recorded during a run has no later launch yet
    lastEvDuringRun, \* the last recorded event arrived inside subprocess.run
    groups,          \* events recorded while pending_index was False
    sepGroups,       \* events recorded more than Cooldown after the previous one
    irrelevantScheduled, \* a directory or foreign-extension event was scheduled
    sinceRunEnd,     \* seconds since the end of a run that received an event
                     \* (capped at Cooldown; Cooldown when there is none)
    followUpEarly,   \* a follow-up rebuild was launched less than Cooldown
                     \* seconds after the end of the run it follows
    loopRunLoaded,   \* a script launched by the main loop ended successfully
    runHung,         \* the indexing script has stopped making progress
    lastRunFailed,   \* the most recent run_indexing ended with CalledProcessError
    nOtherKind,      \* deleted / moved events of relevant files so far (capped)
    otherKindScheduled, \* an event of another kind than created / modified was scheduled
                     \* having loaded the persisted index, not rebuilt it
    \* ---- persisted index and its callers (search.py) ----
    dirVer,          \* version of the content of the source directory
    idxDir,          \* the index directory exists
    idxFaiss,        \* content of index.faiss in it
    idxPkl,          \* content of index.pkl in it
    lastWriter,      \* process that last changed the index directory (0: none)
    pc,              \* position of each process
    force,           \* the process was given --rebuild / --rebuild-index
    docs,            \* directory version the process loaded its documents from
    readF,           \* version of index.faiss read by FAISS.load_local
    result,          \* index returned to the process
    \* ---- history variables of the callers ----
    before,          \* version persisted when the process started (-1: none)
    saveBefore,      \* version persisted when its save_local began (-1: none)
    embedded,        \* the process embedded its documents
    wrote,           \* the process wrote into the index directory in save_local
    loadedOK,        \* FAISS.load_local returned an index to the process
    interrupted,     \* the process stopped inside save_local after writing
    rebuildFailed,   \* a rebuild by the process ended with an error
    lastEmbedder,    \* process whose rebuild started most recently (0: none)
    missing,         \* the call found no persisted index it could load
    \* ---- load_documents (search.py) ----
    files,           \* the files glob returned, in order
    tags,            \* the tags argument
    fileIdx,         \* position of the loop over file_paths
    documents,       \* indices of the files appended to documents
    loadPc,          \* "off", "loop", "returned" or "raised"
    \* ---- crosslinker.py ----
    articles,        \* the Article objects after detect_existing_links
    max_links,       \* max_links_per_article
    linkPc,          \* "off", "find", "update", "done"
    artIdx,          \* position of the loop over the articles
    related_links,   \* filename -> recorded link candidates
    queried,         \* indices of the articles similarity_search was run for
    lastResults,     \* what the most recent similarity_search returned
    outgoing_links,  \* per article: Article.outgoing_links
    findCalls,       \* calls of find_related_articles so far
    recorded,        \* per article: the list its iteration recorded in the first call
    requeried,       \* indices of the articles the second call used as a query
    written,         \* per article: number of links written to its file, -1 if none
    \* --- successive runs of search.py and articlegenerator.py ---
    cfgKey,          \* composer/config.json holds an openai_api_key
    idxVariant,      \* per index name: which embeddings made the persisted vectors
    qCaller,         \* the script that is running
    qPc,             \* where the running script is
    qEmb,            \* the embeddings object of the run
    qDb,             \* which embeddings made the vectors of the run's vector_db
    nRuns            \* runs started so far

watcherVars == <<pcMain, pcObs, pending_index, sinceLast, sleepLeft, initialRun,
                 nEvents, nIgnored, starts, startAge, startsSinceEv, burstClean,
                 uncovered, lastEvDuringRun, groups, sepGroups,
                 irrelevantScheduled, sinceRunEnd, followUpEarly, loopRunLoaded,
                 runHung, lastRunFailed, nOtherKind, otherKindScheduled>>

indexVars == <<dirVer, idxDir, idxFaiss, idxPkl, lastWriter, pc, force,
               docs, readF, result, before, saveBefore, embedded, wrote,
               loadedOK, interrupted, rebuildFailed, lastEmbedder, missing>>

loadVars == <<files, tags, fileIdx, documents, loadPc>>

linkVars == <<articles, max_links, linkPc, artIdx, related_links, queried,
              lastResults, written, outgoing_links, findCalls, recorded,
              requeried>>

queryVars == <<cfgKey, idxVariant, qCaller, qPc, qEmb, qDb, nRuns>>

vars == <<watcherVars, indexVars, loadVars, linkVars, queryVars>>

\* a file of the index directory: absent, being written, or complete
NoFile == [v |-> 0, full |-> FALSE, there |-> FALSE]

Partial(v) == [v |-> v, full |-> FALSE, there |-> TRUE]

Complete(v) == [v |-> v, full |-> TRUE, there |-> TRUE]

\* ------------------------------------------------------------------------
\* indexer.py : KnowledgeBaseHandler
\* ------------------------------------------------------------------------

\* ext.lower() on the extensions of Exts
Lower(ext) ==
    CASE ext = ".MD"   -> ".md"
      [] ext = ".Html" -> ".html"
      [] OTHER         -> ext

\* a handler that takes every file for a relevant one
is_relevant_file_any(ext) == TRUE

\* _is_relevant_file: ext.lower() in self.supported_extensions
is_relevant_file(ext) == Lower(ext) \in supported_extensions

\* The events the watcher is to ignore: those for a directory and those for
\* a file whose extension (letter case aside) is not a supported one.
IrrelevantEvent(isdir, ext) == isdir \/ Lower(ext) \notin supported_extensions

\* The deletion and move events of files the watcher would index.
OtherKindEvent(kind, isdir, ext) ==
    kind \in {"deleted", "moved"} /\ ~IrrelevantEvent(isdir, ext)

\* a handler that schedules on events of every kind
HandlerSchedules_anykind(kind, isdir, ext) == ~isdir /\ is_relevant_file(ext)

\* on_created / on_modified are the only callbacks the handler overrides;
\* the base class callbacks for the other kinds do nothing.
HandlerSchedules(kind, isdir, ext) ==
    /\ kind \in {"created", "modified"}
    /\ ~isdir
    /\ is_relevant_file(ext)

\* value stored by _schedule_indexing into pending_index (line 63)
schedule_pending == TRUE

\* a check that leaves the flag set
check_clear_keeps == TRUE

\* value stored by check_if_should_index into pending_index (line 72)
check_clear == FALSE

\* a run that resets the flag when it ends
run_indexing_resets(pending) == FALSE

\* run_indexing (lines 76-94) does not touch pending_index
run_indexing_pending(pending) == pending

\* a run_indexing that lets CalledProcessError leave the main loop
after_run_raises(ok, initial) ==
    IF ~ok THEN "stopped" ELSE IF initial THEN "c67" ELSE "sleep"

\* where main continues when run_indexing returns: lines 92-94 catch
\* CalledProcessError, so success and failure continue alike, after the
\* startup run (line 133) at the loop's check, after a loop run (line 139)
\* at the sleep of line 142
after_run(ok, initial) == IF initial THEN "c67" ELSE "sleep"

\* run_indexing, lines 81-87: the options of the command line it builds
run_indexing_cmd == {"--knowledge", "--index", "--tags"}

\* index_knowledge.py is not part of the sources.  As the specification
\* describes the index manager: a rebuild is forced only when the caller asks
\* for it, here by one of the options the other scripts use for that.
index_knowledge_force(cmd) == cmd \cap {"--rebuild", "--rebuild-index"} # {}

\* createOrLoad policy of the specification: load a persisted index unless a
\* rebuild is forced
createOrLoad_rebuilds(exists, forceRebuild) == ~exists \/ forceRebuild

\* check_if_should_index, line 71: time_since_last_event >= self.cooldown
CooldownElapsed(since) == since >= Cooldown

\* the watcher as KnowledgeBaseHandler.__init__ and main leave it before the
\* startup run
WatcherStart ==
    /\ pcMain = "start"
    /\ pcObs = "idle"
    /\ pending_index = FALSE
    /\ sinceLast = AgeCap          \* last_event_time = 0, long ago
    /\ sleepLeft = 0
    /\ initialRun = FALSE
    /\ nEvents = 0
    /\ nIgnored = 0
    /\ starts = 0
    /\ startAge = AgeCap
    /\ startsSinceEv = 0
    /\ burstClean = FALSE
    /\ uncovered = FALSE
    /\ lastEvDuringRun = FALSE
    /\ groups = 0
    /\ sepGroups = 0
    /\ irrelevantScheduled = FALSE
    /\ sinceRunEnd = Cooldown
    /\ followUpEarly = FALSE
    /\ loopRunLoaded = FALSE
    /\ runHung = FALSE
    /\ lastRunFailed = FALSE
    /\ nOtherKind = 0
    /\ otherKindScheduled = FALSE

\* A rebuild is in progress from the moment check_if_should_index has
\* committed its decision (line 72) until subprocess.run returns.
Rebuilding == pcMain \in {"c73", "run"}

\* Observer thread: a relevant event reaches _schedule_indexing, line 62:
\* self.last_event_time = time.time()
RelevantEvent(kind, isdir, ext) ==
    /\ pcObs = "idle"
    /\ nEvents < MaxEvents
    /\ HandlerSchedules(kind, isdir, ext)
    /\ pcObs' = "h63"
    /\ sinceLast' = 0
    /\ nEvents' = nEvents + 1
    /\ startsSinceEv' = 0
    /\ burstClean' = (~Rebuilding /\ (CooldownElapsed(sinceLast) \/ burstClean))
    /\ uncovered' = (uncovered \/ pcMain = "run")
    /\ lastEvDuringRun' = (pcMain = "run")
    /\ sepGroups' = IF nEvents = 0 \/ sinceLast > Cooldown
                    THEN sepGroups + 1 ELSE sepGroups
    /\ UNCHANGED <<pcMain, pending_index, sleepLeft, initialRun, nIgnored,
                   starts, startAge, groups>>
    /\ irrelevantScheduled' = (irrelevantScheduled \/ IrrelevantEvent(isdir, ext))
    /\ otherKindScheduled' = (otherKindScheduled \/ kind \notin {"created", "modified"})
    /\ UNCHANGED <<sinceRunEnd, followUpEarly, loopRunLoaded>>
    /\ UNCHANGED <<runHung, lastRunFailed, nOtherKind>>
    /\ UNCHANGED <<indexVars, loadVars, linkVars, queryVars>>

\* Observer thread: an event the handler does not schedule on.
IgnoredEvent(kind, isdir, ext) ==
    /\ pcObs = "idle"
    /\ ~HandlerSchedules(kind, isdir, ext)
    /\ nIgnored' = Min(nIgnored + 1, MaxIgnored)
    /\ nOtherKind' = IF OtherKindEvent(kind, isdir, ext)
                     THEN Min(nOtherKind + 1, MaxIgnored) ELSE nOtherKind
    /\ UNCHANGED <<pcMain, pcObs, pending_index, sinceLast, sleepLeft,
                   initialRun, nEvents, starts, startAge, startsSinceEv,
                   burstClean, uncovered, lastEvDuringRun, groups, sepGroups>>
    /\ UNCHANGED <<irrelevantScheduled, sinceRunEnd, followUpEarly, loopRunLoaded>>
    /\ UNCHANGED <<runHung, lastRunFailed, otherKindScheduled>>
    /\ UNCHANGED <<indexVars, loadVars, linkVars, queryVars>>

\* Observer thread: _schedule_indexing, line 63: self.pending_index = True
SetPending ==
    /\ pcObs = "h63"
    /\ pcObs' = "idle"
    /\ pending_index' = schedule_pending
    /\ groups' = IF pending_index THEN groups ELSE groups + 1
    /\ UNCHANGED <<pcMain, sinceLast, sleepLeft, initialRun, nEvents, nIgnored,
                   starts, startAge, startsSinceEv, burstClean, uncovered,
                   lastEvDuringRun, sepGroups>>
    /\ UNCHANGED <<irrelevantScheduled, sinceRunEnd, followUpEarly, loopRunLoaded>>
    /\ UNCHANGED <<runHung, lastRunFailed, nOtherKind, otherKindScheduled>>
    /\ UNCHANGED <<indexVars, loadVars, linkVars, queryVars>>

\* main, line 133: the indexing run made at startup enters subprocess.run
InitialRun ==
    /\ pcMain = "start"
    /\ pcMain' = "run"
    /\ initialRun' = TRUE
    /\ UNCHANGED <<pcObs, pending_index, sinceLast, sleepLeft, nEvents,
                   nIgnored, starts, startAge, startsSinceEv, burstClean,
                   uncovered, lastEvDuringRun, groups, sepGroups>>
    /\ UNCHANGED <<irrelevantScheduled, sinceRunEnd, followUpEarly, loopRunLoaded>>
    /\ UNCHANGED <<runHung, lastRunFailed, nOtherKind, otherKindScheduled>>
    /\ UNCHANGED <<indexVars, loadVars, linkVars, queryVars>>

\* run_indexing returns (lines 91-94; success and CalledProcessError alike).
\* After the startup run the loop goes to the check, after a loop run to sleep.
\* A subprocess takes longer than the two statements of a callback: a
\* callback that has begun finishes before subprocess.run returns.
\* ok tells whether the script exited with status 0; a script that succeeds
\* has either rebuilt the persisted index from the directory or loaded it.
RunEnd(ok) ==
    /\ pcMain = "run"
    /\ pcObs = "idle"
    /\ ~runHung
    /\ pcMain' = after_run(ok, initialRun)
    /\ lastRunFailed' = ~ok
    /\ sleepLeft' = IF initialRun THEN sleepLeft ELSE SleepSeconds
    /\ initialRun' = FALSE
    /\ pending_index' = run_indexing_pending(pending_index)
    /\ sinceRunEnd' = IF uncovered THEN 0 ELSE Cooldown
    /\ IF ok /\ createOrLoad_rebuilds(idxDir, index_knowledge_force(run_indexing_cmd))
       THEN /\ idxDir' = TRUE
            /\ idxFaiss' = Complete(dirVer)
            /\ idxPkl' = Complete(dirVer)
            /\ UNCHANGED loopRunLoaded
       ELSE /\ loopRunLoaded' = (loopRunLoaded \/ (ok /\ ~initialRun))
            /\ UNCHANGED <<idxDir, idxFaiss, idxPkl>>
    /\ UNCHANGED <<pcObs, sinceLast, nEvents, nIgnored, starts,
                   startAge, startsSinceEv, burstClean, uncovered,
                   lastEvDuringRun, groups, sepGroups, irrelevantScheduled,
                   followUpEarly, runHung, nOtherKind, otherKindScheduled>>
    /\ UNCHANGED <<dirVer, lastWriter, pc, force, docs, readF, result, before,
                   saveBefore, embedded, wrote, loadedOK, interrupted,
                   rebuildFailed, lastEmbedder, missing>>
    /\ UNCHANGED <<loadVars, linkVars, queryVars>>

\* check_if_should_index, lines 67-68: if not self.pending_index: return False
Check67 ==
    /\ pcMain = "c67"
    /\ pcMain' = IF pending_index THEN "c70" ELSE "sleep"
    /\ sleepLeft' = IF pending_index THEN sleepLeft ELSE SleepSeconds
    /\ UNCHANGED <<pcObs, pending_index, sinceLast, initialRun, nEvents,
                   nIgnored, starts, startAge, startsSinceEv, burstClean,
                   uncovered, lastEvDuringRun, groups, sepGroups>>
    /\ UNCHANGED <<irrelevantScheduled, sinceRunEnd, followUpEarly, loopRunLoaded>>
    /\ UNCHANGED <<runHung, lastRunFailed, nOtherKind, otherKindScheduled>>
    /\ UNCHANGED <<indexVars, loadVars, linkVars, queryVars>>

\* check_if_should_index, lines 70-71 and 74
Check70 ==
    /\ pcMain = "c70"
    /\ pcMain' = IF CooldownElapsed(sinceLast) THEN "c72" ELSE "sleep"
    /\ sleepLeft' = IF CooldownElapsed(sinceLast) THEN sleepLeft ELSE SleepSeconds
    /\ UNCHANGED <<pcObs, pending_index, sinceLast, initialRun, nEvents,
                   nIgnored, starts, startAge, startsSinceEv, burstClean,
                   uncovered, lastEvDuringRun, groups, sepGroups>>
    /\ UNCHANGED <<irrelevantScheduled, sinceRunEnd, followUpEarly, loopRunLoaded>>
    /\ UNCHANGED <<runHung, lastRunFailed, nOtherKind, otherKindScheduled>>
    /\ UNCHANGED <<indexVars, loadVars, linkVars, queryVars>>

\* check_if_should_index, line 72: self.pending_index = False
Check72 ==
    /\ pcMain = "c72"
    /\ pcMain' = "c73"
    /\ pending_index' = check_clear
    /\ UNCHANGED <<pcObs, sinceLast, sleepLeft, initialRun, nEvents, nIgnored,
                   starts, startAge, startsSinceEv, burstClean, uncovered,
                   lastEvDuringRun, groups, sepGroups>>
    /\ UNCHANGED <<irrelevantScheduled, sinceRunEnd, followUpEarly, loopRunLoaded>>
    /\ UNCHANGED <<runHung, lastRunFailed, nOtherKind, otherKindScheduled>>
    /\ UNCHANGED <<indexVars, loadVars, linkVars, queryVars>>

\* line 73 returns True, main line 139 calls run_indexing, which enters
\* subprocess.run (line 91): the rebuild starts.
Launch ==
    /\ pcMain = "c73"
    /\ pcMain' = "run"
    /\ starts' = starts + 1
    /\ startAge' = sinceLast
    /\ startsSinceEv' = Min(startsSinceEv + 1, MaxEvents + 1)
    /\ uncovered' = FALSE
    /\ UNCHANGED <<pcObs, pending_index, sinceLast, sleepLeft, initialRun,
                   nEvents, nIgnored, burstClean, lastEvDuringRun, groups,
                   sepGroups>>
    /\ followUpEarly' = (followUpEarly \/ (uncovered /\ sinceRunEnd < Cooldown))
    /\ sinceRunEnd' = Cooldown
    /\ UNCHANGED <<irrelevantScheduled, loopRunLoaded>>
    /\ UNCHANGED <<runHung, lastRunFailed, nOtherKind, otherKindScheduled>>
    /\ UNCHANGED <<indexVars, loadVars, linkVars, queryVars>>

\* main, line 142: time.sleep(1) returns once at least one second has passed
Wake ==
    /\ pcMain = "sleep"
    /\ sleepLeft = 0
    /\ pcMain' = "c67"
    /\ UNCHANGED <<pcObs, pending_index, sinceLast, sleepLeft, initialRun,
                   nEvents, nIgnored, starts, startAge, startsSinceEv,
                   burstClean, uncovered, lastEvDuringRun, groups, sepGroups>>
    /\ UNCHANGED <<irrelevantScheduled, sinceRunEnd, followUpEarly, loopRunLoaded>>
    /\ UNCHANGED <<runHung, lastRunFailed, nOtherKind, otherKindScheduled>>
    /\ UNCHANGED <<indexVars, loadVars, linkVars, queryVars>>

\* One second passes.
Tick ==
    /\ pcMain \in {"run", "sleep"}
    /\ pcObs = "idle"
    /\ sinceLast' = Min(sinceLast + 1, AgeCap)
    /\ sleepLeft' = IF pcMain = "sleep" THEN Max(sleepLeft - 1, 0) ELSE sleepLeft
    /\ UNCHANGED <<pcMain, pcObs, pending_index, initialRun, nEvents, nIgnored,
                   starts, startAge, startsSinceEv, burstClean, uncovered,
                   lastEvDuringRun, groups, sepGroups>>
    /\ sinceRunEnd' = Min(sinceRunEnd + 1, Cooldown)
    /\ UNCHANGED <<irrelevantScheduled, followUpEarly, loopRunLoaded>>
    /\ UNCHANGED <<runHung, lastRunFailed, nOtherKind, otherKindScheduled>>
    /\ UNCHANGED <<indexVars, loadVars, linkVars, queryVars>>

\* The indexing script stops making progress (a network call that never
\* returns, a blocked read).  subprocess.run (line 91) is called without a
\* timeout: it waits until the child exits.
Hang ==
    /\ pcMain = "run"
    /\ ~runHung
    /\ runHung' = TRUE
    /\ UNCHANGED <<pcMain, pcObs, pending_index, sinceLast, sleepLeft,
                   initialRun, nEvents, nIgnored, starts, startAge,
                   startsSinceEv, burstClean, uncovered, lastEvDuringRun,
                   groups, sepGroups>>
    /\ UNCHANGED <<irrelevantScheduled, sinceRunEnd, followUpEarly, loopRunLoaded>>
    /\ UNCHANGED <<lastRunFailed, nOtherKind, otherKindScheduled>>
    /\ UNCHANGED <<indexVars, loadVars, linkVars, queryVars>>


\* ------------------------------------------------------------------------
\* search.py : create_or_load_index and its callers
\* ------------------------------------------------------------------------
Procs == 1 .. NumProcs

Callers == {"search", "article", "crosslink"}

\* position of a script that has loaded its documents and is about to
\* obtain its index
MainOf(c) ==
    CASE c = "search"    -> "search_main"
      [] c = "article"   -> "article_main"
      [] c = "crosslink" -> "crosslink_main"

CallerAt(loc) ==
    CASE loc = "search_main"    -> "search"
      [] loc = "article_main"   -> "article"
      [] loc = "crosslink_main" -> "crosslink"
      [] OTHER                  -> "none"

NoIndex == [f |-> -1, k |-> -1]

\* version of the complete index the directory holds, -1 when it holds none
PersistedVersion ==
    IF idxDir /\ idxFaiss.full /\ idxPkl.full /\ idxFaiss.v = idxPkl.v
    THEN idxFaiss.v ELSE -1

\* positions inside the rebuild of create_or_load_index (lines 117-123)
SavePcs == {"mkdir", "w_faiss", "w_faiss2", "w_pkl", "w_pkl2"}

RebuildPcs == {"embed"} \cup SavePcs

\* load_documents is not running
LoadOff ==
    /\ files = <<>>
    /\ tags = {}
    /\ fileIdx = 0
    /\ documents = <<>>
    /\ loadPc = "off"

\* the crosslinker is not running
LinkOff ==
    /\ articles = <<>>
    /\ max_links = 0
    /\ linkPc = "off"
    /\ artIdx = 0
    /\ related_links = <<>>
    /\ queried = {}
    /\ lastResults = <<>>
    /\ written = <<>>
    /\ outgoing_links = <<>>
    /\ findCalls = 0
    /\ recorded = <<>>
    /\ requeried = {}

\* neither script is run
QueryOff ==
    /\ cfgKey = FALSE
    /\ idxVariant = <<>>
    /\ qCaller = "none"
    /\ qPc = "off"
    /\ qEmb = "none"
    /\ qDb = "none"
    /\ nRuns = 0

\* no script has been started
NoProcess ==
    /\ lastWriter = 0
    /\ pc = [p \in Procs |-> "idle"]
    /\ force = [p \in Procs |-> FALSE]
    /\ docs = [p \in Procs |-> -1]
    /\ readF = [p \in Procs |-> -1]
    /\ result = [p \in Procs |-> NoIndex]
    /\ before = [p \in Procs |-> -1]
    /\ saveBefore = [p \in Procs |-> -1]
    /\ embedded = [p \in Procs |-> FALSE]
    /\ wrote = [p \in Procs |-> FALSE]
    /\ loadedOK = [p \in Procs |-> FALSE]
    /\ interrupted = [p \in Procs |-> FALSE]
    /\ rebuildFailed = [p \in Procs |-> FALSE]
    /\ lastEmbedder = 0
    /\ missing = [p \in Procs |-> FALSE]

\* Initial state of the watcher specification: no index, no script.
WatcherInit ==
    /\ dirVer = 0
    /\ idxDir = FALSE
    /\ idxFaiss = NoFile
    /\ idxPkl = NoFile
    /\ NoProcess
    /\ WatcherStart
    /\ LoadOff
    /\ LinkOff
    /\ QueryOff

\* Initial state of the index specification.  The index name either has no
\* persisted index yet or holds the complete index built from the directory
\* as it is at the beginning (version 0).  The watcher does not run.
IndexInit ==
    /\ dirVer = 0
    /\ idxDir \in BOOLEAN
    /\ idxFaiss = IF idxDir THEN Complete(0) ELSE NoFile
    /\ idxPkl = IF idxDir THEN Complete(0) ELSE NoFile
    /\ NoProcess
    /\ WatcherStart
    /\ LoadOff
    /\ LinkOff
    /\ QueryOff

\* A file of the source directory is edited.
Edit ==
    /\ dirVer < MaxVer
    /\ dirVer' = dirVer + 1
    /\ UNCHANGED <<idxDir, idxFaiss, idxPkl, lastWriter, pc, force,
                   docs, readF, result, before, saveBefore, embedded, wrote,
                   loadedOK, interrupted, rebuildFailed>>
    /\ UNCHANGED <<lastEmbedder, missing>>
    /\ UNCHANGED <<watcherVars, loadVars, linkVars, queryVars>>

\* A script starts: search.py main lines 167-171, articlegenerator.py main
\* lines 229-238, crosslinker.py main lines 270-290.  It loads its documents
\* from the directory as it is now.  Processes are interchangeable: they are
\* numbered in the order in which they start.
Start(p, c, fr) ==
    /\ pc[p] = "idle"
    /\ \A q \in Procs : q < p => pc[q] # "idle"
    /\ pc' = [pc EXCEPT ![p] = MainOf(c)]
    /\ force' = [force EXCEPT ![p] = fr]
    /\ docs' = [docs EXCEPT ![p] = dirVer]
    /\ before' = [before EXCEPT ![p] = PersistedVersion]
    /\ UNCHANGED <<dirVer, idxDir, idxFaiss, idxPkl, lastWriter, readF, result,
                   saveBefore, embedded, wrote, loadedOK, interrupted,
                   rebuildFailed>>
    /\ UNCHANGED <<lastEmbedder, missing>>
    /\ UNCHANGED <<watcherVars, loadVars, linkVars, queryVars>>

\* search.py main, lines 175-178: --rebuild removes an existing index
\* directory before the call.
search_removes(c, fr, exists) == c = "search" /\ fr /\ exists

\* crosslinker.py main, line 293, passes four positional arguments to
\* create_or_load_index(documents, embeddings, index_name): the call raises
\* TypeError, which main catches at line 303.
call_raises(c) == c = "crosslink"

\* The script reaches its call of create_or_load_index.
CallIndex(p) ==
    /\ CallerAt(pc[p]) \in Callers
    /\ IF search_removes(CallerAt(pc[p]), force[p], idxDir)
       THEN /\ idxDir' = FALSE
            /\ idxFaiss' = NoFile
            /\ idxPkl' = NoFile
            /\ lastWriter' = p
       ELSE UNCHANGED <<idxDir, idxFaiss, idxPkl, lastWriter>>
    /\ pc' = [pc EXCEPT ![p] = IF call_raises(CallerAt(pc[p])) THEN "error" ELSE "exists"]
    /\ UNCHANGED <<dirVer, force, docs, readF, result, before,
                   saveBefore, embedded, wrote, loadedOK, interrupted,
                   rebuildFailed>>
    /\ UNCHANGED <<lastEmbedder, missing>>
    /\ UNCHANGED <<watcherVars, loadVars, linkVars, queryVars>>

\* a call that fails when the index name has no persisted index
ExistsBranch_raises(exists) == IF exists THEN "load_faiss" ELSE "error"

\* create_or_load_index, line 108
ExistsBranch(exists) == IF exists THEN "load_faiss" ELSE "embed"

CheckExists(p) ==
    /\ pc[p] = "exists"
    /\ pc' = [pc EXCEPT ![p] = ExistsBranch(idxDir)]
    /\ UNCHANGED <<dirVer, idxDir, idxFaiss, idxPkl, lastWriter, force,
                   docs, readF, result, before, saveBefore, embedded, wrote,
                   loadedOK, interrupted, rebuildFailed>>
    /\ missing' = [missing EXCEPT ![p] = ~idxDir]
    /\ UNCHANGED <<lastEmbedder>>
    /\ UNCHANGED <<watcherVars, loadVars, linkVars, queryVars>>

\* a load that falls through to the rebuild
AfterLoadNoReturn(ok) == "embed"

\* create_or_load_index, lines 110-115: return the loaded index, or report
\* the error and go on to create a new one
AfterLoad(ok) == IF ok THEN "done" ELSE "embed"

\* FAISS.load_local (line 111) reads index.faiss first; a missing or
\* truncated file raises.
LoadFaiss(p) ==
    /\ pc[p] = "load_faiss"
    /\ IF idxDir /\ idxFaiss.full
       THEN /\ readF' = [readF EXCEPT ![p] = idxFaiss.v]
            /\ pc' = [pc EXCEPT ![p] = "load_pkl"]
       ELSE /\ readF' = readF
            /\ pc' = [pc EXCEPT ![p] = AfterLoad(FALSE)]
    /\ UNCHANGED <<dirVer, idxDir, idxFaiss, idxPkl, lastWriter, force,
                   docs, result, before, saveBefore, embedded, wrote, loadedOK,
                   interrupted, rebuildFailed>>
    /\ missing' = [missing EXCEPT ![p] = ~(idxDir /\ idxFaiss.full)]
    /\ UNCHANGED <<lastEmbedder>>
    /\ UNCHANGED <<watcherVars, loadVars, linkVars, queryVars>>

\* FAISS.load_local then reads index.pkl and returns the index made of both.
LoadPkl(p) ==
    /\ pc[p] = "load_pkl"
    /\ IF idxDir /\ idxPkl.full
       THEN /\ result' = [result EXCEPT ![p] = [f |-> readF[p], k |-> idxPkl.v]]
            /\ loadedOK' = [loadedOK EXCEPT ![p] = TRUE]
            /\ pc' = [pc EXCEPT ![p] = AfterLoad(TRUE)]
       ELSE /\ UNCHANGED <<result, loadedOK>>
            /\ pc' = [pc EXCEPT ![p] = AfterLoad(FALSE)]
    /\ readF' = [readF EXCEPT ![p] = -1]
    /\ UNCHANGED <<dirVer, idxDir, idxFaiss, idxPkl, lastWriter, force,
                   docs, before, saveBefore, embedded, wrote, interrupted,
                   rebuildFailed>>
    /\ missing' = [missing EXCEPT ![p] = ~(idxDir /\ idxPkl.full)]
    /\ UNCHANGED <<lastEmbedder>>
    /\ UNCHANGED <<watcherVars, loadVars, linkVars, queryVars>>

\* FAISS.from_documents (line 119) embeds the chunks.
Embed(p) ==
    /\ pc[p] = "embed"
    /\ pc' = [pc EXCEPT ![p] = "mkdir"]
    /\ embedded' = [embedded EXCEPT ![p] = TRUE]
    /\ UNCHANGED <<dirVer, idxDir, idxFaiss, idxPkl, lastWriter, force,
                   docs, readF, result, before, saveBefore, wrote, loadedOK,
                   interrupted, rebuildFailed>>
    /\ lastEmbedder' = p
    /\ UNCHANGED <<missing>>
    /\ UNCHANGED <<watcherVars, loadVars, linkVars, queryVars>>

\* The embedding provider fails: the exception leaves create_or_load_index.
EmbedFail(p) ==
    /\ pc[p] = "embed"
    /\ pc' = [pc EXCEPT ![p] = "error"]
    /\ rebuildFailed' = [rebuildFailed EXCEPT ![p] = TRUE]
    /\ UNCHANGED <<dirVer, idxDir, idxFaiss, idxPkl, lastWriter, force,
                   docs, readF, result, before, saveBefore, embedded, wrote,
                   loadedOK, interrupted>>
    /\ UNCHANGED <<lastEmbedder, missing>>
    /\ UNCHANGED <<watcherVars, loadVars, linkVars, queryVars>>

\* save_local (line 122) creates the index directory if it is missing.
SaveMkdir(p) ==
    /\ pc[p] = "mkdir"
    /\ pc' = [pc EXCEPT ![p] = "w_faiss"]
    /\ saveBefore' = [saveBefore EXCEPT ![p] = PersistedVersion]
    /\ idxDir' = TRUE
    /\ lastWriter' = IF idxDir THEN lastWriter ELSE p
    /\ wrote' = [wrote EXCEPT ![p] = TRUE]
    /\ UNCHANGED <<dirVer, idxFaiss, idxPkl, force, docs, readF, result,
                   before, embedded, loadedOK, interrupted, rebuildFailed>>
    /\ UNCHANGED <<lastEmbedder, missing>>
    /\ UNCHANGED <<watcherVars, loadVars, linkVars, queryVars>>

\* save_local opens index.faiss in the index directory itself for writing,
\* which truncates it; a removed directory makes the open fail.
OpenFaiss(p) ==
    /\ pc[p] = "w_faiss"
    /\ IF idxDir
       THEN /\ idxFaiss' = Partial(docs[p])
            /\ lastWriter' = p
            /\ pc' = [pc EXCEPT ![p] = "w_faiss2"]
            /\ UNCHANGED rebuildFailed
       ELSE /\ UNCHANGED <<idxFaiss, lastWriter>>
            /\ pc' = [pc EXCEPT ![p] = "error"]
            /\ rebuildFailed' = [rebuildFailed EXCEPT ![p] = TRUE]
    /\ UNCHANGED <<dirVer, idxDir, idxPkl, force, docs, readF, result,
                   before, saveBefore, embedded, wrote, loadedOK, interrupted>>
    /\ UNCHANGED <<lastEmbedder, missing>>
    /\ UNCHANGED <<watcherVars, loadVars, linkVars, queryVars>>

\* the write of index.faiss completes
CloseFaiss(p) ==
    /\ pc[p] = "w_faiss2"
    /\ pc' = [pc EXCEPT ![p] = "w_pkl"]
    /\ IF idxDir
       THEN idxFaiss' = Complete(docs[p]) /\ lastWriter' = p
       ELSE UNCHANGED <<idxFaiss, lastWriter>>
    /\ UNCHANGED <<dirVer, idxDir, idxPkl, force, docs, readF, result,
                   before, saveBefore, embedded, wrote, loadedOK, interrupted,
                   rebuildFailed>>
    /\ UNCHANGED <<lastEmbedder, missing>>
    /\ UNCHANGED <<watcherVars, loadVars, linkVars, queryVars>>

\* save_local opens index.pkl for writing
OpenPkl(p) ==
    /\ pc[p] = "w_pkl"
    /\ IF idxDir
       THEN /\ idxPkl' = Partial(docs[p])
            /\ lastWriter' = p
            /\ pc' = [pc EXCEPT ![p] = "w_pkl2"]
            /\ UNCHANGED rebuildFailed
       ELSE /\ UNCHANGED <<idxPkl, lastWriter>>
            /\ pc' = [pc EXCEPT ![p] = "error"]
            /\ rebuildFailed' = [rebuildFailed EXCEPT ![p] = TRUE]
    /\ UNCHANGED <<dirVer, idxDir, idxFaiss, force, docs, readF, result,
                   before, saveBefore, embedded, wrote, loadedOK, interrupted>>
    /\ UNCHANGED <<lastEmbedder, missing>>
    /\ UNCHANGED <<watcherVars, loadVars, linkVars, queryVars>>

\* the write of index.pkl completes and create_or_load_index returns the
\* index it built (line 123)
ClosePkl(p) ==
    /\ pc[p] = "w_pkl2"
    /\ pc' = [pc EXCEPT ![p] = "done"]
    /\ IF idxDir
       THEN idxPkl' = Complete(docs[p]) /\ lastWriter' = p
       ELSE UNCHANGED <<idxPkl, lastWriter>>
    /\ result' = [result EXCEPT ![p] = [f |-> docs[p], k |-> docs[p]]]
    /\ UNCHANGED <<dirVer, idxDir, idxFaiss, force, docs, readF,
                   before, saveBefore, embedded, wrote, loadedOK, interrupted,
                   rebuildFailed>>
    /\ UNCHANGED <<lastEmbedder, missing>>
    /\ UNCHANGED <<watcherVars, loadVars, linkVars, queryVars>>

\* A write of save_local fails part-way (disk full, I/O error): the
\* exception leaves create_or_load_index, the file stays as far as written.
WriteFail(p) ==
    /\ pc[p] \in {"w_faiss2", "w_pkl2"}
    /\ pc' = [pc EXCEPT ![p] = "error"]
    /\ interrupted' = [interrupted EXCEPT ![p] = TRUE]
    /\ rebuildFailed' = [rebuildFailed EXCEPT ![p] = TRUE]
    /\ UNCHANGED <<dirVer, idxDir, idxFaiss, idxPkl, lastWriter, force,
                   docs, readF, result, before, saveBefore, embedded, wrote,
                   loadedOK>>
    /\ UNCHANGED <<lastEmbedder, missing>>
    /\ UNCHANGED <<watcherVars, loadVars, linkVars, queryVars>>

\* The process is killed inside save_local after it has begun to write.
\* (A process killed anywhere else is one that takes no further step.)
Kill(p) ==
    /\ pc[p] \in {"w_faiss2", "w_pkl", "w_pkl2"}
    /\ pc' = [pc EXCEPT ![p] = "killed"]
    /\ interrupted' = [interrupted EXCEPT ![p] = TRUE]
    /\ UNCHANGED <<dirVer, idxDir, idxFaiss, idxPkl, lastWriter, force,
                   docs, readF, result, before, saveBefore, embedded, wrote,
                   loadedOK, rebuildFailed>>
    /\ UNCHANGED <<lastEmbedder, missing>>
    /\ UNCHANGED <<watcherVars, loadVars, linkVars, queryVars>>

IndexNext ==
    \/ Edit
    \/ \E p \in Procs, c \in Callers, fr \in BOOLEAN : Start(p, c, fr)
    \/ \E p \in Procs : CallIndex(p)
    \/ \E p \in Procs : CheckExists(p)
    \/ \E p \in Procs : LoadFaiss(p)
    \/ \E p \in Procs : LoadPkl(p)
    \/ \E p \in Procs : Embed(p)
    \/ \E p \in Procs : EmbedFail(p)
    \/ \E p \in Procs : SaveMkdir(p)
    \/ \E p \in Procs : OpenFaiss(p)
    \/ \E p \in Procs : CloseFaiss(p)
    \/ \E p \in Procs : OpenPkl(p)
    \/ \E p \in Procs : ClosePkl(p)
    \/ \E p \in Procs : WriteFail(p)
    \/ \E p \in Procs : Kill(p)

SpecIndex == IndexInit /\ [][IndexNext]_vars

\* ------------------------------------------------------------------------
\* search.py : load_documents
\* ------------------------------------------------------------------------

\* What the front matter of a file is:
\*   "none"     the content has no '---' block, or the block
\*              has no closing '---'                      -> {}
\*   "badyaml"  yaml.safe_load raises (caught at line 46) -> {}
\*   "nodict"   yaml.safe_load returns None (an empty block), a
\*              scalar or a list
\*   "notags"   a mapping without the key tags
\*   "nulltags" a mapping with tags: null
\*   "list"     a mapping whose tags is the list taglist
\*   "str"      a mapping whose tags is the string tagstr
FrontMatters == {"none", "badyaml", "nodict", "notags", "nulltags", "list", "str"}

TagLists == {{}, {"seo"}, {"news"}, {"seo", "draft"}}

TagStrings == {"seo", "seo-tips"}

TagFilters == {{}, {"seo"}, {"news"}, {"seo", "news"}}

MdFile(fm, tl, ts) ==
    [ext |-> ".md", readable |-> TRUE, hidden |-> FALSE, fm |-> fm,
     taglist |-> tl, tagstr |-> ts]

\* the files below the directory whose extension is one of line 66, as far
\* as load_documents distinguishes them; hidden: the name of the file or of
\* a directory above it starts with a dot
FileKinds ==
    {[ext |-> ".md", readable |-> FALSE, hidden |-> FALSE, fm |-> "none",
      taglist |-> {}, tagstr |-> ""],
     [ext |-> ".txt", readable |-> TRUE, hidden |-> FALSE, fm |-> "list",
      taglist |-> {"news"}, tagstr |-> ""],
     [ext |-> ".json", readable |-> TRUE, hidden |-> TRUE, fm |-> "none",
      taglist |-> {}, tagstr |-> ""]}
    \cup {MdFile(fm, {}, "") : fm \in {"none", "badyaml", "nodict", "notags", "nulltags"}}
    \cup {MdFile("list", tl, "") : tl \in TagLists}
    \cup {MdFile("str", {}, ts) : ts \in TagStrings}

\* Python's  a in b  for two of the strings above
Substring(a, b) == a = b \/ (a = "seo" /\ b = "seo-tips")

\* extract_yaml_front_matter (lines 30-49): "dict" when it returns a mapping,
\* "other" when it returns what yaml.safe_load made of a block that is none
front_matter_of(f) ==
    IF f.fm \in {"none", "badyaml"} THEN "empty"
    ELSE IF f.fm = "nodict" THEN "other"
    ELSE "dict"

\* line 82: any(tag in file_tags for tag in tags), where file_tags is
\* front_matter.get('tags', [])
tag_match(f, tagset) ==
    IF f.fm = "list" THEN \E t \in tagset : t \in f.taglist
    ELSE IF f.fm = "str" THEN \E t \in tagset : Substring(t, f.tagstr)
    ELSE FALSE

\* lines 66-67: glob.glob(directory/**/*ext, recursive=True); neither * nor
\* ** matches a name that starts with a dot
glob_matches(f) == ~f.hidden

\* line 77: file_path.endswith(('.md', '.markdown'))
filter_applies(ext) == ext \in {".md", ".markdown"}

\* What load_documents does with a file: "unlisted" when it is not in
\* file_paths, else the result of its iteration of the loop body (lines
\* 71-92): "append", "skip" (continue at line 83) or "error" (an exception
\* reaches line 94).
FileOutcome(f, tagset) ==
    IF ~glob_matches(f) THEN "unlisted"
    ELSE IF ~f.readable THEN "error"                       \* open / read
    ELSE IF tagset # {} /\ filter_applies(f.ext)
    THEN IF front_matter_of(f) = "other" THEN "error"      \* .get on a non-mapping
         ELSE IF front_matter_of(f) = "dict" /\ f.fm = "nulltags"
              THEN "error"                                 \* tag in None
         ELSE IF tag_match(f, tagset) THEN "append" ELSE "skip"
    ELSE "append"

\* a handler that lets the exception leave load_documents
on_file_error_raises == "raised"

\* lines 94-95: the error is printed and the loop goes on
on_file_error == "loop"

LoadInit ==
    /\ files \in UNION {[1 .. n -> FileKinds] : n \in 1 .. MaxFiles}
    /\ tags \in TagFilters
    /\ fileIdx = 1
    /\ documents = <<>>
    /\ loadPc = "loop"
    /\ NoProcess
    /\ QueryOff
    /\ WatcherStart
    /\ LinkOff
    /\ dirVer = 0
    /\ idxDir = FALSE
    /\ idxFaiss = NoFile
    /\ idxPkl = NoFile

\* the next file of the directory: it is in file_paths or not (lines 66-67),
\* and if it is, one iteration of the loop of lines 69-95 handles it
LoadFile ==
    /\ loadPc = "loop"
    /\ fileIdx <= Len(files)
    /\ LET out == FileOutcome(files[fileIdx], tags) IN
         /\ documents' = IF out = "append" THEN Append(documents, fileIdx)
                         ELSE documents
         /\ loadPc' = IF out = "error" THEN on_file_error ELSE "loop"
    /\ fileIdx' = fileIdx + 1
    /\ UNCHANGED <<files, tags>>
    /\ UNCHANGED <<watcherVars, indexVars, linkVars, queryVars>>

\* lines 97-99: the loop is over, documents is returned
LoadReturn ==
    /\ loadPc = "loop"
    /\ fileIdx > Len(files)
    /\ loadPc' = "returned"
    /\ UNCHANGED <<files, tags, fileIdx, documents>>
    /\ UNCHANGED <<watcherVars, indexVars, linkVars, queryVars>>

LoadNext ==
    \/ LoadFile
    \/ LoadReturn

SpecLoad == LoadInit /\ [][LoadNext]_vars

Loaded(i) == \E j \in 1 .. Len(documents) : documents[j] = i

\* ------------------------------------------------------------------------
\* crosslinker.py : find_related_articles, update_articles_with_links
\* ------------------------------------------------------------------------

\* Article.filename is the base name of the file: articles in different
\* subdirectories can share it.
Filenames == {"a.md", "b.md"}

\* metadata["filename"] of the documents a vector index can return: those of
\* the articles and, for an index persisted earlier, of files since removed
ResultNames == Filenames \cup {"old.md"}

\* An Article after detect_existing_links (lines 236-251): linked tells
\* whether outgoing_links is non-empty.
ArticleKinds == [filename : Filenames, is_published : BOOLEAN, linked : BOOLEAN]

\* similarity_search(query, k) returns at most k documents
SearchResults(k) == UNION {[1 .. n -> ResultNames] : n \in 0 .. k}

\* a filter that keeps every result
keep_target_any(target_filename, filename) == TRUE

\* line 192: if target_filename != article.filename
keep_target(target_filename, filename) == target_filename # filename

\* lines 189-201: the loop over results, from result i on, having collected
\* related so far
RECURSIVE RelatedFrom(_, _, _, _, _)
RelatedFrom(results, i, related, filename, maxl) ==
    IF i > Len(results) THEN related
    ELSE LET rel == IF keep_target(results[i], filename)
                    THEN Append(related, results[i]) ELSE related
         IN IF Len(rel) >= maxl THEN rel                    \* lines 200-201
            ELSE RelatedFrom(results, i + 1, rel, filename, maxl)

\* a test that takes every article for a published one
published_any(article) == TRUE

\* lines 171 and 217: article.is_published
published(article) == article.is_published

\* a tracker that forgets the target
add_outgoing_link_drops(links, target_filename) == links

\* Article.add_outgoing_link, lines 77-79
add_outgoing_link(links, target_filename) == links \cup {target_filename}

\* line 197, for every element appended to related: the outgoing links of
\* the article after the loop, from element i of related on
RECURSIVE OutgoingFrom(_, _, _)
OutgoingFrom(related, i, links) ==
    IF i > Len(related) THEN links
    ELSE OutgoingFrom(related, i + 1, add_outgoing_link(links, related[i]))

\* the target of a link detect_existing_links found in an article's content
DetectedLink == "seen.md"

LinkInit ==
    /\ articles \in UNION {[1 .. n -> ArticleKinds] : n \in 1 .. MaxArticles}
    /\ max_links \in 0 .. MaxLinks
    /\ linkPc = "find"
    /\ artIdx = 1
    /\ related_links = [f \in Filenames |-> <<>>]
    /\ queried = {}
    /\ lastResults = <<>>
    /\ written = [i \in DOMAIN articles |-> -1]
    /\ outgoing_links = [i \in DOMAIN articles |->
                            IF articles[i].linked THEN {DetectedLink} ELSE {}]
    /\ findCalls = 1
    /\ recorded = [i \in DOMAIN articles |-> <<>>]
    /\ requeried = {}
    /\ NoProcess
    /\ QueryOff
    /\ WatcherStart
    /\ LoadOff
    /\ dirVer = 0
    /\ idxDir = FALSE
    /\ idxFaiss = NoFile
    /\ idxPkl = NoFile

\* find_related_articles, lines 171 and 177-180: an article that is not
\* published is not in published_articles, one with outgoing links is skipped
FindSkip ==
    /\ linkPc = "find"
    /\ artIdx <= Len(articles)
    /\ ~published(articles[artIdx]) \/ outgoing_links[artIdx] # {}
    /\ artIdx' = artIdx + 1
    /\ UNCHANGED <<articles, max_links, linkPc, related_links, queried,
                   lastResults, written, outgoing_links, findCalls, recorded,
                   requeried>>
    /\ UNCHANGED <<watcherVars, indexVars, loadVars, queryVars>>

\* find_related_articles, lines 182-203, for the next published article
FindQuery(results) ==
    /\ linkPc = "find"
    /\ artIdx <= Len(articles)
    /\ published(articles[artIdx]) /\ outgoing_links[artIdx] = {}
    /\ Len(results) <= max_links + 1                                \* line 185
    /\ LET related == RelatedFrom(results, 1, <<>>,
                                  articles[artIdx].filename, max_links)
       IN /\ related_links' =
                [related_links EXCEPT ![articles[artIdx].filename] = related]
          /\ outgoing_links' =
                [outgoing_links EXCEPT ![artIdx] = OutgoingFrom(related, 1, @)]
          /\ recorded' = IF findCalls = 1
                         THEN [recorded EXCEPT ![artIdx] = related]
                         ELSE recorded
    /\ queried' = queried \cup {artIdx}
    /\ requeried' = IF findCalls = 1 THEN requeried
                    ELSE requeried \cup {artIdx}
    /\ lastResults' = results
    /\ artIdx' = artIdx + 1
    /\ UNCHANGED <<articles, max_links, linkPc, written, findCalls>>
    /\ UNCHANGED <<watcherVars, indexVars, loadVars, queryVars>>

\* a caller calls find_related_articles again on the same Article objects:
\* lines 168-171 start with an empty related_links
FindAgain ==
    /\ linkPc = "find"
    /\ artIdx > Len(articles)
    /\ findCalls = 1
    /\ findCalls' = 2
    /\ artIdx' = 1
    /\ related_links' = [f \in Filenames |-> <<>>]
    /\ lastResults' = <<>>
    /\ UNCHANGED <<articles, max_links, linkPc, queried, written,
                   outgoing_links, recorded, requeried>>
    /\ UNCHANGED <<watcherVars, indexVars, loadVars, queryVars>>

\* line 205: return related_links; main line 300 calls
\* update_articles_with_links
FindReturn ==
    /\ linkPc = "find"
    /\ artIdx > Len(articles)
    /\ linkPc' = "update"
    /\ artIdx' = 1
    /\ lastResults' = <<>>
    /\ UNCHANGED <<articles, max_links, related_links, queried, written,
                   outgoing_links, findCalls, recorded, requeried>>
    /\ UNCHANGED <<watcherVars, indexVars, loadVars, queryVars>>

\* update_articles_with_links, lines 216-232, for the next article
UpdateArticle ==
    /\ linkPc = "update"
    /\ artIdx <= Len(articles)
    /\ LET links == related_links[articles[artIdx].filename] IN     \* line 221
         written' = IF published(articles[artIdx]) /\ links # <<>>
                    THEN [written EXCEPT ![artIdx] = Len(links)]
                    ELSE written
    /\ artIdx' = artIdx + 1
    /\ UNCHANGED <<articles, max_links, linkPc, related_links, queried,
                   lastResults, outgoing_links, findCalls, recorded,
                   requeried>>
    /\ UNCHANGED <<watcherVars, indexVars, loadVars, queryVars>>

\* line 234
UpdateReturn ==
    /\ linkPc = "update"
    /\ artIdx > Len(articles)
    /\ linkPc' = "done"
    /\ UNCHANGED <<articles, max_links, artIdx, related_links, queried,
                   lastResults, written, outgoing_links, findCalls, recorded,
                   requeried>>
    /\ UNCHANGED <<watcherVars, indexVars, loadVars, queryVars>>

LinkNext ==
    \/ FindSkip
    \/ \E results \in SearchResults(MaxLinks + 1) : FindQuery(results)
    \/ FindAgain
    \/ FindReturn
    \/ UpdateArticle
    \/ UpdateReturn

SpecLink == LinkInit /\ [][LinkNext]_vars

\* the targets of a list of link candidates
Targets(links) == {links[j] : j \in 1 .. Len(links)}

\* ------------------------------------------------------------------------
\* search.py : initialize_embeddings, main -- successive runs of search.py
\* and articlegenerator.py
\* ------------------------------------------------------------------------

\* the scripts that query the index they obtain
QueryCallers == {"search", "article"}

\* search.py line 174: index_name = "history_index"; articlegenerator.py
\* line 36: DEFAULT_INDEX_NAME = "seo_index"
IndexNameOf(c) == IF c = "search" THEN "history_index" ELSE "seo_index"

IndexNames == {IndexNameOf(c) : c \in QueryCallers}

\* initialize_embeddings, lines 22-28: OpenAIEmbeddings when the configuration
\* holds an openai_api_key, else the local HuggingFaceEmbeddings
initialize_embeddings(key) == IF key THEN "remote" ELSE "local"

\* FAISS.load_local(index_name, embeddings), line 111: the vectors of the
\* returned store are those of the files, whatever embeddings is passed
load_local(stored, embeddings) == stored

\* FAISS.from_documents(chunks, embeddings), line 117
from_documents(embeddings) == embeddings

\* nothing is persisted under the index name yet; the configuration holds a
\* key or not
QueryInit ==
    /\ cfgKey \in BOOLEAN
    /\ idxVariant = [n \in IndexNames |-> "none"]
    /\ qCaller = "none"
    /\ qPc = "idle"
    /\ qEmb = "none"
    /\ qDb = "none"
    /\ nRuns = 0
    /\ NoProcess
    /\ WatcherStart
    /\ LoadOff
    /\ LinkOff
    /\ dirVer = 0
    /\ idxDir = FALSE
    /\ idxFaiss = NoFile
    /\ idxPkl = NoFile

\* between two runs the operator adds the key to composer/config.json or
\* removes it; load_config (lines 17-20) reads the file in every run
SetConfig(key) ==
    /\ qPc = "idle"
    /\ key # cfgKey
    /\ cfgKey' = key
    /\ UNCHANGED <<idxVariant, qCaller, qPc, qEmb, qDb, nRuns>>
    /\ UNCHANGED <<watcherVars, indexVars, loadVars, linkVars>>

\* search.py main, lines 166-176, articlegenerator.py main, lines 231-238:
\* the configuration is read and the embeddings are initialised; search.py
\* with --rebuild removes the index directory
QStart(c, rebuild) ==
    /\ qPc = "idle"
    /\ nRuns < MaxRuns
    /\ nRuns' = nRuns + 1
    /\ qCaller' = c
    /\ qEmb' = initialize_embeddings(cfgKey)
    /\ idxVariant' =
          IF search_removes(c, rebuild, idxVariant[IndexNameOf(c)] # "none")
          THEN [idxVariant EXCEPT ![IndexNameOf(c)] = "none"]
          ELSE idxVariant
    /\ qPc' = "index"
    /\ UNCHANGED <<cfgKey, qDb>>
    /\ UNCHANGED <<watcherVars, indexVars, loadVars, linkVars>>

\* search.py line 178, articlegenerator.py line 241: create_or_load_index
\* (lines 107-123) loads the persisted index when there is one, else builds
\* and saves it
QCreateOrLoad ==
    /\ qPc = "index"
    /\ LET name == IndexNameOf(qCaller) IN
         IF idxVariant[name] # "none"
         THEN /\ qDb' = load_local(idxVariant[name], qEmb)
              /\ UNCHANGED idxVariant
         ELSE /\ qDb' = from_documents(qEmb)
              /\ idxVariant' = [idxVariant EXCEPT ![name] = from_documents(qEmb)]
    /\ qPc' = "search"
    /\ UNCHANGED <<cfgKey, qCaller, qEmb, nRuns>>
    /\ UNCHANGED <<watcherVars, indexVars, loadVars, linkVars>>

\* search.py line 181, articlegenerator.py line 256: similarity_search embeds the query with the embeddings
\* object of the run and searches the store's vectors.  When the vectors
\* were made by the other variant the search either raises (the dimensions
\* differ) or ranks by distances between unrelated vector spaces.
QSearch(raises) ==
    /\ qPc = "search"
    /\ raises => qDb # qEmb
    /\ qPc' = IF raises THEN "raised" ELSE "results"
    /\ UNCHANGED <<cfgKey, idxVariant, qCaller, qEmb, qDb, nRuns>>
    /\ UNCHANGED <<watcherVars, indexVars, loadVars, linkVars>>

\* the process exits
QExit ==
    /\ qPc \in {"raised", "results"}
    /\ qPc' = "idle"
    /\ qCaller' = "none"
    /\ qEmb' = "none"
    /\ qDb' = "none"
    /\ UNCHANGED <<cfgKey, idxVariant, nRuns>>
    /\ UNCHANGED <<watcherVars, indexVars, loadVars, linkVars>>

QueryNext ==
    \/ \E key \in BOOLEAN : SetConfig(key)
    \/ \E c \in QueryCallers, rebuild \in BOOLEAN : QStart(c, rebuild)
    \/ QCreateOrLoad
    \/ \E raises \in BOOLEAN : QSearch(raises)
    \/ QExit

SpecQuery == QueryInit /\ [][QueryNext]_vars

MainStep ==
    \/ InitialRun
    \/ \E ok \in BOOLEAN : RunEnd(ok)
    \/ Check67
    \/ Check70
    \/ Check72
    \/ Launch
    \/ Wake

WatcherNext ==
    \/ \E kind \in EventKinds, isdir \in BOOLEAN, ext \in Exts :
          RelevantEvent(kind, isdir, ext)
    \/ \E kind \in EventKinds, isdir \in BOOLEAN, ext \in Exts :
          IgnoredEvent(kind, isdir, ext)
    \/ SetPending
    \/ InitialRun
    \/ \E ok \in BOOLEAN : RunEnd(ok)
    \/ Check67
    \/ Check70
    \/ Check72
    \/ Launch
    \/ Wake
    \/ Tick

SpecWatcher == WatcherInit /\ [][WatcherNext]_vars

\* The main thread keeps running, a started subprocess returns, the observer
\* finishes a callback it has begun, and time passes.
FairWatcher ==
    /\ SpecWatcher
    /\ WF_vars(MainStep)
    /\ WF_vars(SetPending)
    /\ WF_vars(Tick)

\* The watcher when the script it starts can hang.
HangNext ==
    \/ \E kind \in EventKinds, isdir \in BOOLEAN, ext \in Exts :
          RelevantEvent(kind, isdir, ext)
    \/ \E kind \in EventKinds, isdir \in BOOLEAN, ext \in Exts :
          IgnoredEvent(kind, isdir, ext)
    \/ SetPending
    \/ InitialRun
    \/ \E ok \in BOOLEAN : RunEnd(ok)
    \/ Check67
    \/ Check70
    \/ Check72
    \/ Launch
    \/ Wake
    \/ Tick
    \/ Hang

\* The main thread keeps running, a subprocess that has not hung returns,
\* the observer finishes a callback it has begun, and time passes.  Nothing
\* makes a hung subprocess exit.
FairHang ==
    /\ WatcherInit /\ [][HangNext]_vars
    /\ WF_vars(MainStep)
    /\ WF_vars(SetPending)
    /\ WF_vars(Tick)

\* The watcher is idle: the loop sleeps, no callback is running, nothing pending.
Quiescent == pcMain = "sleep" /\ pcObs = "idle" /\ ~pending_index

\* ------------------------------------------------------------------------
\* Properties of the watcher
\* ------------------------------------------------------------------------

\* C2 (as claimed): every rebuild the main loop launches starts at an
\* instant when at least Cooldown seconds have elapsed since the most recent
\* relevant file event, under every interleaving of the callbacks with
\* check_if_should_index.
C2_LaunchAfterCooldown == startAge >= Cooldown

\* C3 (as claimed): after the last event of a burst that arrived while no
\* rebuild was in progress, the main loop launches at most one rebuild until
\* a new relevant event arrives.
C3_OneRebuildPerBurst == burstClean => startsSinceEv <= 1

\* C4 (as claimed): whenever the watcher is idle, every relevant event that
\* arrived more than Cooldown seconds after the previous one (and the first
\* event) has had a rebuild of its own.
C4_SeparateRebuilds == Quiescent => starts >= sepGroups

\* C4 (amended): whenever the watcher is idle, the number of rebuilds the
\* main loop has launched equals the number of relevant events that were
\* recorded while pending_index was False; events recorded while it was
\* True share the rebuild of the event that set it.
C4_RebuildPerPendingRise ==
    /\ starts <= groups
    /\ Quiescent => starts = groups

C4_Witness == Quiescent /\ sepGroups = 2 /\ groups = 1 /\ starts = 1

\* C5: an event recorded while subprocess.run is executing keeps
\* pending_index set until the next launch (it is not lost), the launch
\* eventually happens, and when that event is the last one the main loop
\* launches no second rebuild after it.
C5_NotLost ==
    /\ uncovered => (pending_index \/ pcObs = "h63" \/ pcMain = "c73")
    /\ lastEvDuringRun => startsSinceEv <= 1

\* C5: C5_NotLost holds throughout, and every event recorded during a run
\* is eventually followed by a launch of the main loop.
C5_FollowUp == [](C5_NotLost) /\ (uncovered ~> ~uncovered)

C5_Witness == lastEvDuringRun /\ startsSinceEv = 1 /\ nEvents >= 2 /\ Quiescent

\* ------------------------------------------------------------------------
\* Properties of create_or_load_index and its callers
\* ------------------------------------------------------------------------

\* C1 (as claimed): at any moment at most one process is inside the rebuild
\* (embed, build, save) of the index name.
C1_SingleFlight == Cardinality({p \in Procs : pc[p] \in RebuildPcs}) <= 1

\* C6 (as claimed): when a save that began over a complete persisted index
\* is interrupted after it has written, and nothing else has changed the
\* index directory since, the directory still holds that complete index.
C6_CrashSafeSave ==
    \A p \in Procs :
        (interrupted[p] /\ lastWriter = p /\ saveBefore[p] >= 0)
            => PersistedVersion = saveBefore[p]

\* C7 (as claimed): when a rebuild fails, the complete index that was
\* persisted when the script was started is still the persisted index, as
\* long as no other process has changed the index directory afterwards.
C7_FailedRebuildKeepsIndex ==
    \A p \in Procs :
        (rebuildFailed[p] /\ before[p] >= 0 /\ lastWriter \in {0, p})
            => PersistedVersion = before[p]

\* C8 (as claimed): an index returned by a load consists of the two files
\* of one and the same build.
C8_ReaderSeesOneVersion ==
    \A p \in Procs : loadedOK[p] => result[p].f = result[p].k

\* C9 (as claimed): a script given the rebuild flag for an index name that
\* has a persisted index, and whose embedding and writes do not fail, ends
\* having embedded the documents it was given and returns the index built
\* from them.
C9_ForcedRebuild ==
    \A p \in Procs :
        (force[p] /\ before[p] >= 0 /\ pc[p] \in {"done", "error"}
                  /\ ~rebuildFailed[p])
            => (embedded[p] /\ result[p] = [f |-> docs[p], k |-> docs[p]])

\* C10: a call of create_or_load_index whose load of the persisted index
\* succeeded returns that index, has embedded nothing and has written
\* nothing into the index directory.
C10_LoadPathReadOnly ==
    \A p \in Procs :
        loadedOK[p] => /\ pc[p] = "done"
                       /\ result[p] # NoIndex
                       /\ ~embedded[p]
                       /\ ~wrote[p]

C10_Witness ==
    \E p \in Procs :
        /\ loadedOK[p]
        /\ pc[p] = "done"
        /\ ~force[p]
        /\ result[p] = [f |-> 0, k |-> 0]
        /\ docs[p] = 1
        /\ PersistedVersion = 0

\* C11 (as claimed): when two forced calls for the same index name have both
\* rebuilt and returned, the persisted index is the complete index built
\* from the directory as the rebuild that started second read it.
C11_SecondRebuildWins ==
    \A p, q \in Procs :
        (/\ p # q
         /\ force[p] /\ force[q]
         /\ pc[p] = "done" /\ pc[q] = "done"
         /\ embedded[p] /\ embedded[q]
         /\ \A r \in Procs \ {p, q} : pc[r] = "idle")
            => PersistedVersion = docs[lastEmbedder]

\* C17: a call that found no persisted index, or could not load the one it
\* found, ends in an error only when its rebuild failed; when it returns it
\* has embedded its documents, has saved, and returns the index built from
\* them; and when no other process is using the index name, that index is
\* the persisted one.
C17_MissingIndexRebuilds ==
    \A p \in Procs :
        missing[p] =>
            /\ pc[p] = "error" => rebuildFailed[p]
            /\ pc[p] = "done" =>
                  /\ embedded[p] /\ wrote[p]
                  /\ result[p] = [f |-> docs[p], k |-> docs[p]]
            /\ (pc[p] = "done" /\ \A q \in Procs \ {p} : pc[q] = "idle")
                  => PersistedVersion = docs[p]

C17_Witness ==
    \E p \in Procs :
        /\ missing[p] /\ pc[p] = "done"
        /\ before[p] = -1
        /\ PersistedVersion = docs[p]
        /\ \A q \in Procs \ {p} : pc[q] = "idle"

\* ------------------------------------------------------------------------
\* Properties of the watcher (continued)
\* ------------------------------------------------------------------------

\* C18: no event for a directory or for a file with a foreign extension is
\* ever scheduled, and as long as only such events (and events of other
\* kinds than created / modified) have arrived, pending_index is False,
\* last_event_time has its initial value and the main loop has launched no
\* rebuild.
C18_IrrelevantIgnored ==
    /\ ~irrelevantScheduled
    /\ nEvents = 0 => /\ ~pending_index
                      /\ pcObs = "idle"
                      /\ sinceLast = AgeCap
                      /\ starts = 0

C18_Witness ==
    /\ nIgnored >= 1 /\ nEvents = 0
    /\ pcMain = "sleep" /\ idxDir
    /\ ~pending_index /\ starts = 0

\* C19 (as claimed): a follow-up rebuild, one launched for events that
\* arrived during the previous run, starts at least Cooldown seconds after
\* that run ended.
C19_FollowUpAfterCompletion == ~followUpEarly

\* C20 (as claimed): every indexing invocation launched by the main loop
\* that ends successfully has rebuilt the persisted index, not loaded it.
C20_LaunchRebuildsIndex == ~loopRunLoaded

\* C22 (as claimed): every rebuild the watcher starts ends, so the main loop
\* returns to its periodic check.
C22_RebuildEnds == (pcMain = "run") ~> (pcMain # "run")

\* C26: a failed run does not stop the main loop, and when an event is
\* pending after a failed run, a rebuild starts.
C26_FailureIsLocal ==
    /\ [](lastRunFailed => pcMain \in {"c67", "c70", "c72", "c73", "sleep", "run"})
    /\ (lastRunFailed /\ pending_index /\ pcMain # "run") ~> (pcMain = "run")

\* a loop run failed, an event arrived after it, and the rebuild for that
\* event is running
C26_Witness ==
    /\ lastRunFailed
    /\ pcMain = "run" /\ ~initialRun
    /\ starts = 2 /\ nEvents = 2
    /\ ~lastEvDuringRun
    /\ ~pending_index

\* C30: no event of another kind than created / modified is ever scheduled,
\* and the arrival of a deletion or move event of a relevant file changes
\* neither pending_index nor the last event time, nor the place of the main
\* loop or the number of rebuilds started.
C30_OnlyCreateModify ==
    /\ [](~otherKindScheduled)
    /\ [][nOtherKind' # nOtherKind =>
            UNCHANGED <<pending_index, sinceLast, pcObs, pcMain, starts>>]_vars

\* a deletion or move event of a relevant file has arrived while an event
\* was pending, and nothing but that event was counted
C30_Witness ==
    /\ nOtherKind >= 1
    /\ nEvents = 1 /\ pending_index /\ pcObs = "idle"
    /\ starts = 0

\* ------------------------------------------------------------------------
\* Properties of the embedding provider
\* ------------------------------------------------------------------------

\* C23 (as claimed): the vectors of the store a run queries were made by the
\* embedding variant the run embeds its query with.
C23_SameVariant == qDb # "none" => qDb = qEmb

\* ------------------------------------------------------------------------
\* Properties of load_documents
\* ------------------------------------------------------------------------

\* The tags of a file's front matter: the elements of its tags list; a
\* single string given as tags counts as a list of that one tag.
TagsOf(f) ==
    IF f.fm = "list" THEN f.taglist
    ELSE IF f.fm = "str" THEN {f.tagstr}
    ELSE {}

\* C12 (as claimed): with a non-empty filter, a readable markdown file is
\* among the returned documents if and only if the tags of its front matter
\* contain a tag equal to one of the filter's tags.
C12_TagFilter ==
    (loadPc = "returned" /\ tags # {}) =>
        \A i \in 1 .. Len(files) :
            (files[i].ext = ".md" /\ files[i].readable)
                => (Loaded(i) <=> TagsOf(files[i]) \cap tags # {})

\* C16: load_documents never raises; when it returns, the documents are
\* exactly the files whose own iteration neither failed nor skipped them,
\* in the order of the scan.
C16_BadFileSkipped ==
    /\ loadPc # "raised"
    /\ loadPc = "returned" =>
          /\ \A i \in 1 .. Len(files) :
                Loaded(i) <=> FileOutcome(files[i], tags) = "append"
          /\ \A j, k \in 1 .. Len(documents) : j < k => documents[j] < documents[k]

C16_Witness ==
    /\ loadPc = "returned"
    /\ tags # {}
    /\ Len(files) = 3
    /\ files[1].fm = "nodict"
    /\ ~files[2].readable
    /\ documents = <<3>>

\* C24 (as claimed): with a non-empty filter, no markdown file is returned
\* whose front matter is not a mapping with a list under tags.
C24_NoFrontMatterExcluded ==
    (loadPc = "returned" /\ tags # {}) =>
        \A i \in 1 .. Len(files) :
            (files[i].ext = ".md" /\ files[i].fm # "list") => ~Loaded(i)

\* C25 (as claimed): a readable file that is not markdown is returned
\* whatever the filter is, and with an empty filter every readable file is
\* returned exactly once.
C25_FilterMarkdownOnly ==
    loadPc = "returned" =>
        \A i \in 1 .. Len(files) :
            /\ (files[i].readable /\ files[i].ext \in {".txt", ".html", ".json", ".csv"})
                  => Loaded(i)
            /\ (files[i].readable /\ tags = {})
                  => Cardinality({j \in 1 .. Len(documents) : documents[j] = i}) = 1

\* ------------------------------------------------------------------------
\* Properties of the crosslinker
\* ------------------------------------------------------------------------

\* C13: the link candidates recorded for a published article never contain
\* that article's own filename, whatever similarity_search returned.
C13_NoSelfLink ==
    \A i \in DOMAIN articles :
        articles[i].is_published
            => articles[i].filename \notin Targets(related_links[articles[i].filename])

C13_Witness ==
    /\ linkPc = "find" /\ artIdx = 2
    /\ articles[1] = [filename |-> "a.md", is_published |-> TRUE, linked |-> FALSE]
    /\ max_links = 2
    /\ lastResults = <<"a.md", "a.md", "b.md">>
    /\ related_links["a.md"] = <<"b.md">>

\* C14 (as claimed): at most max_links_per_article link candidates are
\* recorded for an article, and at most that many links are written into a
\* file.
C14_AtMostMaxLinks ==
    /\ \A f \in DOMAIN related_links : Len(related_links[f]) <= max_links
    /\ \A i \in DOMAIN written : written[i] <= max_links

\* C15 (as claimed): an article with detected outgoing links is not queried
\* and its file is not written.
C15_LinkedUntouched ==
    \A i \in DOMAIN articles :
        articles[i].linked => (i \notin queried /\ written[i] = -1)

\* C21: every target recorded for an article by find_related_articles is in
\* that article's outgoing_links, and a second call on the same Article
\* objects does not query, and so records nothing for, an article whose
\* iteration recorded link candidates in the first call.
C21_RecordedOnce ==
    \A i \in DOMAIN articles :
        /\ Targets(recorded[i]) \subseteq outgoing_links[i]
        /\ recorded[i] # <<>> => i \notin requeried

\* the second call has passed an article the first call recorded candidates
\* for, and has queried another one
C21_Witness ==
    /\ findCalls = 2 /\ linkPc = "find" /\ artIdx > Len(articles)
    /\ Len(articles) = 2
    /\ recorded[1] = <<"b.md">> /\ outgoing_links[1] = {"b.md"}
    /\ recorded[2] = <<>>
    /\ requeried = {2}

\* C27: an article that is not published is never used as a query and its
\* file is never written.
C27_PublishedOnly ==
    \A i \in DOMAIN articles :
        ~articles[i].is_published => (i \notin queried /\ written[i] = -1)

\* the pass is over: the published article was queried and written, the
\* unpublished one of the same base name was not
C27_Witness ==
    /\ linkPc = "done"
    /\ Len(articles) = 2
    /\ articles[1] = [filename |-> "a.md", is_published |-> FALSE, linked |-> FALSE]
    /\ articles[2] = [filename |-> "a.md", is_published |-> TRUE, linked |-> FALSE]
    /\ queried = {2}
    /\ written = <<-1, 1>>

\* C28 (as claimed): the list of link candidates recorded for an article
\* holds each target filename at most once.
C28_NoDuplicateTarget ==
    \A f \in DOMAIN related_links :
        Cardinality(Targets(related_links[f])) = Len(related_links[f])

\* C29 (as claimed): every recorded link candidate targets an article of the
\* loaded set that is published.
C29_TargetsLoaded ==
    \A f \in DOMAIN related_links :
        \A t \in Targets(related_links[f]) :
            \E i \in DOMAIN articles :
                articles[i].filename = t /\ articles[i].is_published

=============================================================================
